---- MODULE Spec2Model ----
(***************************************************************************)
(* State-machine model of scikeras/_saving_utils.py: the scoped staging    *)
(* folder (_get_temp_folder), the tar transport of a saved model            *)
(* (pack_keras_model / unpack_keras_model), the optimizer pack/unpack pair  *)
(* and the one-shot weight restoration hook (_restore_optimizer_weights,    *)
(* _temp_create_all_weights).                                               *)
(*                                                                          *)
(* A path is a sequence of components; the first component of a staging     *)
(* root is the scheme ("ram://" or the disk temp directory).  The storage   *)
(* medium is one map from paths to entries, shared by every call.  The      *)
(* ram:// medium is a flat map: removing an entry removes that entry only.  *)
(***************************************************************************)
EXTENDS Integers, Sequences, FiniteSets, TLC

\* ------------------------------------------------------------------ bounds

\* Number of staging roots that may be acquired in one run (caps uuid4 draws).
MaxIds == 3

\* Calls that may run concurrently (threads of the pickling protocol).
Procs == {"p1", "p2"}

\* ------------------------------------------------------------ live objects

\* Trainable variables a training loop binds an optimizer to, with shapes.
Vars == {"a", "b"}
VarShape(v) == IF v = "a" THEN 2 ELSE 3

\* Variable lists handed to _create_all_weights; <<"bad">> stands for a
\* list the original allocation routine rejects.
VarLists == {<<"a">>, <<"b">>, <<"bad">>}

Arr(s, v) == [shape |-> s, val |-> v]

\* optimizer_weights: a list of arrays, or None.
NoneWeights == [some |-> FALSE, ws |-> <<>>]
SomeWeights(ws) == [some |-> TRUE, ws |-> ws]

\* An optimizer object.  weights is optimizer.weights (the iteration counter
\* followed by one slot per bound variable, in creation order); slotvars are
\* the variables that already have a slot.  has_restored / restored is the
\* attribute _restored_weights, has_orig / orig the attribute
\* _create_all_weights_orig, caw the routine _create_all_weights resolves to:
\* "orig" (the class's allocation routine) or "temp" (the restoring wrapper).
FreshOptimizer ==
    [alive |-> TRUE, weights |-> <<>>, slotvars |-> <<>>,
     has_restored |-> FALSE, restored |-> NoneWeights,
     has_orig |-> FALSE, orig |-> "orig", caw |-> "orig"]

NoOptimizer == [FreshOptimizer EXCEPT !.alive = FALSE]

\* O1 was trained on variable "a"; O2 was never used.
TrainedOptimizer ==
    [FreshOptimizer EXCEPT !.weights = <<Arr(0, 5), Arr(2, 7)>>,
                           !.slotvars = <<"a">>]

LiveOptimizers == {"O1", "O2"}
OptIds == LiveOptimizers \cup Procs

\* Live models: M0 has no optimizer, M1 is compiled with O1.
Models == {"M0", "M1"}
ModelOptimizer(m) == IF m = "M1" THEN "O1" ELSE "None"
ModelWeightsData(m) == IF m = "M0" THEN <<>> ELSE <<2, 3>>

\* Live metrics and losses.  cls is the class, name and dtype are its
\* constructor arguments, state is what it has accumulated (a metric's running
\* totals), attrs the attributes attached to the instance after construction.
MLIds == {"acc", "auc", "mine", "mse", "hub", "myloss"}

MLObject(id) ==
    [some |-> TRUE,
     family |-> IF id \in {"acc", "auc", "mine"} THEN "metric" ELSE "loss",
     cls |-> CASE id = "acc" -> "Accuracy"
               [] id = "auc" -> "AUC"
               [] id = "mine" -> "MyMetric"
               [] id = "mse" -> "MeanSquaredError"
               [] id = "hub" -> "Huber"
               [] OTHER -> "MyLoss",
     name |-> id,
     dtype |-> IF id = "auc" THEN "float64" ELSE "float32",
     state |-> IF id \in {"acc", "auc"} THEN 4 ELSE 0,
     attrs |-> {}]

NoObject == [some |-> FALSE, family |-> "none", cls |-> "none", name |-> "none",
             dtype |-> "none", state |-> 0, attrs |-> {}]

\* Classes keras.metrics.deserialize / keras.losses.deserialize can resolve;
\* MyMetric and MyLoss are user classes that were never registered.
MetricClasses == {"Accuracy", "AUC"}
LossClasses == {"MeanSquaredError", "Huber"}

\* ------------------------------------------------------------------- paths

RamScheme == "ram://"
DiskScheme == "C:/Temp"

\* os.path.join(a, b) for a relative b.
Join(a, b) == a \o b

\* os.path.dirname
Dirname(p) == IF Len(p) <= 1 THEN <<>> ELSE SubSeq(p, 1, Len(p) - 1)

IsPrefix(a, b) == Len(a) <= Len(b) /\ SubSeq(b, 1, Len(a)) = a

\* os.path.relpath(p, start): the components of p below start, or a path
\* that climbs out of start when p is not under it.
Relpath(p, start) ==
    IF IsPrefix(start, p) THEN SubSeq(p, Len(start) + 1, Len(p))
    ELSE <<"..">> \o p

\* filename.startswith("ram://")
StartsWithRam(filename) == Len(filename) >= 1 /\ filename[1] = RamScheme

\* --------------------------------------------------------- storage medium

DirEntry == [dir |-> TRUE, data |-> <<>>]
FileEntry(d) == [dir |-> FALSE, data |-> d]

Exists(f, p) == p \in DOMAIN f
IsFile(f, p) == p \in DOMAIN f /\ ~f[p].dir

FsPut(f, p, e) == [q \in DOMAIN f \cup {p} |-> IF q = p THEN e ELSE f[q]]

\* tf.io.gfile.remove on the flat ram:// medium (and on a file of the disk
\* medium): erases the one entry at p.
FsRemove(f, p) == [q \in DOMAIN f \ {p} |-> f[q]]

\* tf.io.gfile.makedirs: creates every missing directory from the root down.
FsMakedirs(f, p) ==
    LET new == {SubSeq(p, 1, k) : k \in 2..Len(p)} \ DOMAIN f
    IN  [q \in DOMAIN f \cup new |-> IF q \in new THEN DirEntry ELSE f[q]]

\* Recursive removal (tempfile.TemporaryDirectory's cleanup).
FsRmtree(f, p) == [q \in {r \in DOMAIN f : ~IsPrefix(p, r)} |-> f[q]]

Under(f, root) == {q \in DOMAIN f : IsPrefix(root, q)}
FilesUnder(f, root) == {q \in DOMAIN f : IsPrefix(root, q) /\ ~f[q].dir}

RECURSIVE SetToSeq(_)
SetToSeq(S) ==
    IF S = {} THEN <<>>
    ELSE LET x == CHOOSE y \in S : TRUE IN <<x>> \o SetToSeq(S \ {x})

\* tf.io.gfile.walk(top), flattened to the (root, filename) pairs the two
\* nested loops visit.  full: the medium reports each file by its whole
\* ram:// path instead of its name inside root.  The loops remove files
\* only, never directories, so listing up front visits the same pairs.
Walk(f, top, full) ==
    IF ~Exists(f, top) THEN <<>>
    ELSE LET files == SetToSeq(FilesUnder(f, top))
         IN  [i \in 1..Len(files) |->
                [root |-> Dirname(files[i]),
                 filename |-> IF full THEN files[i]
                              ELSE <<files[i][Len(files[i])]>>]]

\* Faulty variant: the name is always joined to the walk root.
WalkDestJoined(root, filename) == Join(root, filename)

\* The file a walk entry names: lines 80-85 and 105-110.
WalkDest(root, filename) ==
    IF StartsWithRam(filename) THEN filename ELSE Join(root, filename)

\* Faulty variant: the entry is named by the file's base name, not its relative path.
TarEntryBasename(f, dest, temp) ==
    [name |-> <<dest[Len(dest)]>>, size |-> Len(f[dest].data),
     data |-> SubSeq(f[dest].data, 1, Len(f[dest].data))]

\* The archive entry pack adds for dest: lines 111-114.
TarEntry(f, dest, temp) ==
    [name |-> Relpath(dest, temp), size |-> Len(f[dest].data),
     data |-> SubSeq(f[dest].data, 1, Len(f[dest].data))]

\* Where unpack writes the entry fname: line 73.
ExtractDest(temp, fname) == Join(temp, fname)

\* archive.getnames()
GetNames(archive) == [i \in 1..Len(archive) |-> archive[i].name]

\* archive.extractfile(fname).read(): the last member of that name.
ExtractFile(archive, fname) ==
    LET idx == {i \in 1..Len(archive) : archive[i].name = fname}
        last == CHOOSE i \in idx : \A j \in idx : j <= i
    IN  SubSeq(archive[last].data, 1, archive[last].size)

\* ----------------------------------------------------- model save / load

ConfigFile == <<"saved_model.pb">>
VariablesFile == <<"variables", "variables.index">>
AssetFile == <<"assets", "vocab.txt">>
AssetsDir == <<"assets">>

\* The bytes of the saved configuration tell whether an optimizer was saved.
ConfigData(m) == IF ModelOptimizer(m) = "None" THEN <<0>> ELSE <<1>>

\* The files model.save writes, in the order it writes them: M1 also has
\* an asset.
SavedFiles(m) ==
    <<[rel |-> VariablesFile, data |-> ModelWeightsData(m)]>>
    \o (IF m = "M1" THEN <<[rel |-> AssetFile, data |-> <<7>>]>> ELSE <<>>)
    \o <<[rel |-> ConfigFile, data |-> ConfigData(m)]>>

RECURSIVE WriteFiles(_, _, _)
WriteFiles(f, files, temp) ==
    IF files = <<>> THEN f
    ELSE WriteFiles(FsPut(FsMakedirs(f, Join(temp, Dirname(Head(files).rel))),
                          Join(temp, Head(files).rel),
                          FileEntry(Head(files).data)),
                    Tail(files), temp)

\* model.save(temp): the directory tree of a saved model.
SaveModel(f, m, temp) ==
    WriteFiles(FsMakedirs(f, Join(temp, AssetsDir)), SavedFiles(m), temp)

\* A save that raises after it wrote the directories and the first file.
SaveModelPartial(f, m, temp) ==
    WriteFiles(FsMakedirs(f, Join(temp, AssetsDir)),
               <<Head(SavedFiles(m))>>, temp)

\* load_model(temp) can read the tree: both files are there.
Loadable(f, temp) ==
    IsFile(f, Join(temp, ConfigFile)) /\ IsFile(f, Join(temp, VariablesFile))

NoModel == [some |-> FALSE, has_optimizer |-> FALSE, wdata |-> <<>>,
            optimizer |-> NoOptimizer]

\* load_model(temp): a live model; its optimizer, when one was saved, is a
\* newly constructed object.
LoadModel(f, temp) ==
    LET has == f[Join(temp, ConfigFile)].data = <<1>>
    IN  [some |-> TRUE, has_optimizer |-> has,
         wdata |-> f[Join(temp, VariablesFile)].data,
         optimizer |-> IF has THEN FreshOptimizer ELSE NoOptimizer]

\* -------------------------------------------------------------- optimizer

\* optimizer.get_weights()
GetWeights(o) == SomeWeights(o.weights)

RECURSIVE NewSlots(_, _)
NewSlots(vl, have) ==
    IF vl = <<>> THEN <<>>
    ELSE IF \E i \in 1..Len(have) : have[i] = Head(vl)
         THEN NewSlots(Tail(vl), have)
         ELSE <<Head(vl)>> \o NewSlots(Tail(vl), have \o <<Head(vl)>>)

\* The class's allocation routine: creates the iteration counter and a
\* zero slot for every variable of var_list that has none yet.
AllocRaises(vl) == \E i \in 1..Len(vl) : vl[i] \notin Vars

\* Faulty variant: the wrapper goes on without the slots being allocated.
AllocateNothing(o, vl) == o

Allocate(o, vl) ==
    LET new == NewSlots(vl, o.slotvars)
        iter == IF o.weights = <<>> THEN <<Arr(0, 0)>> ELSE <<>>
    IN  [o EXCEPT !.weights = o.weights \o iter \o
                      [i \in 1..Len(new) |-> Arr(VarShape(new[i]), 0)],
                  !.slotvars = o.slotvars \o new]

\* optimizer.set_weights(w): what it raises, "none" when it applies w.
SetWeightsRaises(o, w) ==
    IF ~w.some THEN "TypeError"
    ELSE IF Len(w.ws) # Len(o.weights) THEN "ValueError"
    ELSE IF \E i \in 1..Len(w.ws) : w.ws[i].shape # o.weights[i].shape
         THEN "ValueError"
    ELSE "none"

SetWeights(o, w) == [o EXCEPT !.weights = w.ws]

\* Faulty variant: the hook is attached with an empty pending list.
RestoreOptimizerWeightsEmpty(o, w) ==
    [o EXCEPT !.has_restored = TRUE, !.restored = SomeWeights(<<>>),
              !.has_orig = TRUE, !.orig = o.caw,
              !.caw = "temp"]

\* Faulty variant: line 58 is missing, the wrapper is installed without a
\* pending list.
RestoreOptimizerWeightsNoList(o, w) ==
    [o EXCEPT !.has_orig = TRUE, !.orig = o.caw, !.caw = "temp"]

\* Faulty variant: lines 59 and 62 are exchanged, the routine is saved after
\* the wrapper was installed.
RestoreOptimizerWeightsSwapped(o, w) ==
    [o EXCEPT !.has_restored = TRUE, !.restored = w,
              !.has_orig = TRUE, !.orig = "temp",
              !.caw = "temp"]

\* _restore_optimizer_weights: lines 58-62.
RestoreOptimizerWeights(o, w) ==
    [o EXCEPT !.has_restored = TRUE, !.restored = w,
              !.has_orig = TRUE, !.orig = o.caw,
              !.caw = "temp"]

\* Faulty variant: line 51 is missing, the pending list stays on the optimizer.
RemoveHookKeepsWeights(o) == [o EXCEPT !.caw = o.orig]

\* Faulty variant: line 52 is missing, the wrapper stays in place.
RemoveHookKeepsWrapper(o) ==
    [o EXCEPT !.has_restored = FALSE, !.restored = NoneWeights]

\* _temp_create_all_weights, lines 51-52.
RemoveHook(o) ==
    [o EXCEPT !.has_restored = FALSE, !.restored = NoneWeights,
              !.caw = o.orig]

\* ------------------------------------------------------------------ state

VARIABLES
    os_name,    \* os.name: "nt" or "posix"
    walk_full,  \* whether tf.io.gfile.walk reports whole ram:// paths
    fs,         \* the storage medium: path -> entry
    nextId,     \* number of staging roots acquired so far
    pc,         \* per call slot: the statement it is at
    loc,        \* per call slot: the locals of the running call
    packed,     \* per call slot: what the last pack returned (the pickle)
    result,     \* per call slot: the model the last unpack_keras_model returned
    opt,        \* the optimizer objects: the live ones and each slot's reconstructed one
    last,       \* per call slot: the last finished operation and how it ended
    hist,       \* per reconstructed optimizer: its allocation calls so far
    origin,     \* per reconstructed optimizer: the pickle it was rebuilt from
    ml          \* per call slot: the last metric/loss pickle and what it rebuilt

vars == <<os_name, walk_full, fs, nextId, pc, loc, packed, result, opt, last,
          hist, origin, ml>>

NoLoc ==
    [temp_dir |-> <<>>, todo |-> <<>>, dest |-> <<>>, archive |-> <<>>,
     exc |-> "none", model |-> "None", weights |-> NoneWeights,
     loaded |-> NoModel, var_list |-> <<>>, src |-> "None",
     mismatch |-> FALSE]

NoPacked ==
    [kind |-> "none", blob |-> <<>>, cfg |-> "none", weights |-> NoneWeights,
     model |-> "None", src |-> "None"]

\* hooked: the restoring wrapper was attached when the optimizer was
\* reconstructed; ended: a _create_all_weights call on it has ended;
\* returned: one has returned normally; attempted: one has reached
\* set_weights; first: the running call is the first one on it.
NoHist == [hooked |-> FALSE, ended |-> FALSE, returned |-> FALSE,
           attempted |-> FALSE, first |-> FALSE]

\* model: the live model that was packed; src: the live optimizer that was packed (the live optimizers are not
\* changed by any operation, so opt[src].weights are the weights it held at
\* pack time); arg: the weights argument unpack was called with.
NoOrigin == [model |-> "None", src |-> "None", arg |-> NoneWeights]

\* The last call that can raise (every operation but pack_keras_optimizer).
\* op: the operation; done: whether it has ended; exc: what it raised
\* ("none" when it returned); cleanup_exc: what the scope's exit logic itself
\* raised; dir: the staging root of the last call that acquired one;
\* mismatch: set_weights raised ValueError inside the call.
NoLast == [op |-> "none", done |-> FALSE, exc |-> "none", cleanup_exc |-> "none",
           dir |-> <<>>, mismatch |-> FALSE]

\* fn: the unpack function the last metric/loss pack returned; args: the
\* argument tuple it returned; src: the live object that was packed; obj:
\* the object the last metric/loss unpack returned; obj_src: the live object
\* whose pickle it was rebuilt from.
NoML == [fn |-> "none", args |-> <<>>, src |-> "None", obj |-> NoObject,
         obj_src |-> "None"]

Started(p, name) == [NoLast EXCEPT !.op = name, !.dir = last[p].dir]
Ended(p, name, e) == [NoLast EXCEPT !.op = name, !.done = TRUE, !.exc = e,
                                    !.dir = last[p].dir]

Init ==
    /\ os_name \in {"nt", "posix"}
    /\ walk_full \in BOOLEAN
    /\ (os_name = "nt" => ~walk_full)
    /\ fs = <<>>
    /\ nextId = 0
    /\ pc = [p \in Procs |-> "idle"]
    /\ loc = [p \in Procs |-> NoLoc]
    /\ packed = [p \in Procs |-> NoPacked]
    /\ result = [p \in Procs |-> NoModel]
    /\ opt = [o \in OptIds |->
                IF o = "O1" THEN TrainedOptimizer
                ELSE IF o = "O2" THEN FreshOptimizer
                ELSE NoOptimizer]
    /\ last = [p \in Procs |-> NoLast]
    /\ hist = [p \in Procs |-> NoHist]
    /\ origin = [p \in Procs |-> NoOrigin]
    /\ ml = [p \in Procs |-> NoML]

\* -------------------------------------------------------- _get_temp_folder

\* Faulty variant: every call draws the same identifier.
Uuid4Fixed(n) == "0"

\* uuid4(): an identifier no earlier draw returned.
Uuid4(n) == ToString(n)

\* The root _get_temp_folder yields: lines 21-29.
TempRoot(n) ==
    IF os_name = "nt" THEN <<DiskScheme, Uuid4(n)>> ELSE <<RamScheme, Uuid4(n)>>

\* Entering the scope: the disk directory is created, the ram:// root is
\* only named.
EnterFs(f, root) == IF os_name = "nt" THEN FsPut(f, root, DirEntry) ELSE f

\* A statement of the with-body raised: control goes to the scope's exit.
Raise(p, e) ==
    /\ pc' = [pc EXCEPT ![p] = "exit"]
    /\ loc' = [loc EXCEPT ![p].exc = e]

\* The call leaves the scope: it returns its value, re-raises the body's
\* exception, or raises the exception cexc of the exit logic itself.
Leave(p, cexc) ==
    LET e == IF cexc # "none" THEN cexc ELSE loc[p].exc IN
    /\ pc' = [pc EXCEPT ![p] = "idle"]
    /\ last' = [last EXCEPT ![p] =
                 [op |-> last[p].op, done |-> TRUE, exc |-> e,
                  cleanup_exc |-> cexc, dir |-> loc[p].temp_dir,
                  mismatch |-> FALSE]]
    /\ loc' = [loc EXCEPT ![p] = NoLoc]
    /\ IF e # "none"
       THEN UNCHANGED <<packed, result, opt, hist, origin>>
       ELSE IF last[p].op = "pack_keras_model"
       THEN /\ packed' = [packed EXCEPT ![p] =
                            [kind |-> "model", blob |-> loc[p].archive,
                             cfg |-> "none", weights |-> loc[p].weights,
                             model |-> loc[p].model,
                             src |-> ModelOptimizer(loc[p].model)]]
            /\ UNCHANGED <<result, opt, hist, origin>>
       ELSE /\ result' = [result EXCEPT ![p] =
                            [loc[p].loaded EXCEPT !.optimizer = NoOptimizer]]
            /\ opt' = [opt EXCEPT ![p] = loc[p].loaded.optimizer]
            /\ hist' = [hist EXCEPT ![p] =
                          [NoHist EXCEPT !.hooked =
                             loc[p].loaded.optimizer.caw = "temp"]]
            /\ origin' = [origin EXCEPT ![p] =
                            [model |-> loc[p].model, src |-> loc[p].src,
                             arg |-> loc[p].weights]]
            /\ UNCHANGED packed

\* Faulty variant: the exit logic removes the root without asking whether it exists.
ExitRemovesAlways(f, dir) == TRUE

\* Line 31: whether the exit logic removes the root.
ExitShouldRemove(f, dir) == Exists(f, dir)

\* Scope exit, lines 30-31 (posix) and TemporaryDirectory's cleanup (nt).
exit_exists(p) ==
    /\ pc[p] = "exit"
    /\ UNCHANGED <<ml, os_name, walk_full, nextId>>
    /\ \/ /\ os_name = "nt"
          /\ fs' = FsRmtree(fs, loc[p].temp_dir)
          /\ Leave(p, "none")
       \/ /\ os_name # "nt"
          /\ ~ExitShouldRemove(fs, loc[p].temp_dir)
          /\ UNCHANGED fs
          /\ Leave(p, "none")
       \/ /\ os_name # "nt"
          /\ ExitShouldRemove(fs, loc[p].temp_dir)
          /\ pc' = [pc EXCEPT ![p] = "exit_remove"]
          /\ UNCHANGED <<fs, loc, packed, result, opt, last, hist, origin>>

\* tf.io.gfile.remove(path): what it raises on the medium f.
RemoveRaises(f, path) == IF Exists(f, path) THEN "none" ELSE "NotFoundError"

\* Scope exit, lines 32-34: tf.io.gfile.remove(dir).
exit_remove(p) ==
    /\ pc[p] = "exit_remove"
    /\ fs' = FsRemove(fs, loc[p].temp_dir)
    /\ Leave(p, RemoveRaises(fs, loc[p].temp_dir))
    /\ UNCHANGED <<ml, os_name, walk_full, nextId>>

\* -------------------------------------------------------- pack_keras_model

\* Line 99: the call starts and acquires its staging root.
pack_begin(p) ==
    /\ pc[p] = "idle"
    /\ nextId < MaxIds
    /\ \E m \in Models :
         loc' = [loc EXCEPT ![p] = [NoLoc EXCEPT !.temp_dir = TempRoot(nextId),
                                                 !.model = m]]
    /\ nextId' = nextId + 1
    /\ fs' = EnterFs(fs, TempRoot(nextId))
    /\ pc' = [pc EXCEPT ![p] = "pack_save"]
    /\ last' = [last EXCEPT ![p] = [NoLast EXCEPT !.op = "pack_keras_model",
                                                  !.dir = TempRoot(nextId)]]
    /\ UNCHANGED <<ml, os_name, walk_full, packed, result, opt, hist, origin>>

\* Line 100: model.save(temp_dir) writes the tree, or raises before or
\* after it wrote a part of it.
pack_save(p) ==
    /\ pc[p] = "pack_save"
    /\ UNCHANGED <<ml, os_name, walk_full, nextId, packed, result, opt, last,
                   hist, origin>>
    /\ \/ /\ fs' = SaveModel(fs, loc[p].model, loc[p].temp_dir)
          /\ pc' = [pc EXCEPT ![p] = "pack_walk"]
          /\ UNCHANGED loc
       \/ /\ fs' = SaveModelPartial(fs, loc[p].model, loc[p].temp_dir)
          /\ Raise(p, "OSError")
       \/ /\ UNCHANGED fs
          /\ Raise(p, "OSError")

\* Lines 101-103: the archive is opened and the walk lists the tree.
pack_walk(p) ==
    /\ pc[p] = "pack_walk"
    /\ loc' = [loc EXCEPT ![p].todo = Walk(fs, loc[p].temp_dir, walk_full),
                          ![p].archive = <<>>]
    /\ pc' = [pc EXCEPT ![p] = "pack_add"]
    /\ UNCHANGED <<ml, os_name, walk_full, fs, nextId, packed, result, opt, last,
                   hist, origin>>

\* Lines 104-114: the next file is read and added to the archive; the
\* loops end when the walk is exhausted.
pack_add(p) ==
    /\ pc[p] = "pack_add"
    /\ UNCHANGED <<ml, os_name, walk_full, fs, nextId, packed, result, opt, last,
                   hist, origin>>
    /\ \/ /\ loc[p].todo = <<>>
          /\ pc' = [pc EXCEPT ![p] = "pack_weights"]
          /\ UNCHANGED loc
       \/ /\ loc[p].todo # <<>>
          /\ LET d == WalkDest(Head(loc[p].todo).root, Head(loc[p].todo).filename)
             IN  IF IsFile(fs, d)
                 THEN /\ loc' = [loc EXCEPT
                                   ![p].dest = d,
                                   ![p].archive = Append(loc[p].archive,
                                                   TarEntry(fs, d, loc[p].temp_dir))]
                      /\ pc' = [pc EXCEPT ![p] = "pack_remove"]
                 ELSE Raise(p, "NotFoundError")

\* Faulty variant: line 115 is missing, the archived file stays in staging.
pack_remove_skipped(p) ==
    /\ pc[p] = "pack_remove"
    /\ loc' = [loc EXCEPT ![p].todo = Tail(loc[p].todo)]
    /\ pc' = [pc EXCEPT ![p] = "pack_add"]
    /\ UNCHANGED <<ml, os_name, walk_full, fs, nextId, packed, result, opt,
                   last, hist, origin>>

\* Line 115: the file just archived is removed from staging.
pack_remove(p) ==
    /\ pc[p] = "pack_remove"
    /\ UNCHANGED <<ml, os_name, walk_full, nextId, packed, result, opt, last,
                   hist, origin>>
    /\ IF RemoveRaises(fs, loc[p].dest) = "none"
       THEN /\ fs' = FsRemove(fs, loc[p].dest)
            /\ loc' = [loc EXCEPT ![p].todo = Tail(loc[p].todo)]
            /\ pc' = [pc EXCEPT ![p] = "pack_add"]
       ELSE /\ UNCHANGED fs
            /\ Raise(p, RemoveRaises(fs, loc[p].dest))

\* Lines 116-124: the optimizer's weights are read and the value to return
\* is built.
pack_weights(p) ==
    /\ pc[p] = "pack_weights"
    /\ loc' = [loc EXCEPT ![p].weights =
                 IF ModelOptimizer(loc[p].model) # "None"
                 THEN GetWeights(opt[ModelOptimizer(loc[p].model)])
                 ELSE NoneWeights]
    /\ pc' = [pc EXCEPT ![p] = "exit"]
    /\ UNCHANGED <<ml, os_name, walk_full, fs, nextId, packed, result, opt, last,
                   hist, origin>>

\* ------------------------------------------------------ unpack_keras_model

\* Line 69: the pickling protocol calls unpack_keras_model with the packed
\* bytes and either the packed weights or None; the call acquires its root.
unpack_begin(p) ==
    /\ pc[p] = "idle"
    /\ nextId < MaxIds
    /\ packed[p].kind = "model"
    /\ \E w \in {packed[p].weights, NoneWeights} :
         loc' = [loc EXCEPT ![p] = [NoLoc EXCEPT !.temp_dir = TempRoot(nextId),
                                                 !.archive = packed[p].blob,
                                                 !.weights = w,
                                                 !.model = packed[p].model,
                                                 !.src = packed[p].src]]
    /\ nextId' = nextId + 1
    /\ fs' = EnterFs(fs, TempRoot(nextId))
    /\ pc' = [pc EXCEPT ![p] = "unpack_open"]
    /\ last' = [last EXCEPT ![p] = [NoLast EXCEPT !.op = "unpack_keras_model",
                                                  !.dir = TempRoot(nextId)]]
    /\ UNCHANGED <<ml, os_name, walk_full, packed, result, opt, hist, origin>>

\* Lines 70-72: the archive is opened and its names are listed, or the
\* bytes are not a readable archive.
unpack_open(p) ==
    /\ pc[p] = "unpack_open"
    /\ UNCHANGED <<ml, os_name, walk_full, fs, nextId, packed, result, opt, last,
                   hist, origin>>
    /\ \/ /\ loc' = [loc EXCEPT ![p].todo = GetNames(loc[p].archive)]
          /\ pc' = [pc EXCEPT ![p] = "unpack_makedirs"]
       \/ Raise(p, "ReadError")

\* Faulty variant: line 74 is missing, the parent directories are not made.
unpack_makedirs_skipped(p) ==
    /\ pc[p] = "unpack_makedirs"
    /\ UNCHANGED <<ml, os_name, walk_full, fs, nextId, packed, result, opt,
                   last, hist, origin>>
    /\ \/ /\ loc[p].todo = <<>>
          /\ pc' = [pc EXCEPT ![p] = "unpack_load"]
          /\ UNCHANGED loc
       \/ /\ loc[p].todo # <<>>
          /\ loc' = [loc EXCEPT ![p].dest =
                       ExtractDest(loc[p].temp_dir, Head(loc[p].todo))]
          /\ pc' = [pc EXCEPT ![p] = "unpack_write"]

\* Lines 72-74: the next entry's parent directories are created; the loop
\* ends when every name was visited.
unpack_makedirs(p) ==
    /\ pc[p] = "unpack_makedirs"
    /\ UNCHANGED <<ml, os_name, walk_full, nextId, packed, result, opt, last,
                   hist, origin>>
    /\ \/ /\ loc[p].todo = <<>>
          /\ pc' = [pc EXCEPT ![p] = "unpack_load"]
          /\ UNCHANGED <<fs, loc>>
       \/ /\ loc[p].todo # <<>>
          /\ LET d == ExtractDest(loc[p].temp_dir, Head(loc[p].todo))
             IN  /\ fs' = FsMakedirs(fs, Dirname(d))
                 /\ loc' = [loc EXCEPT ![p].dest = d]
          /\ pc' = [pc EXCEPT ![p] = "unpack_write"]

\* Lines 75-76: the entry's bytes are written to its place in staging.
unpack_write(p) ==
    /\ pc[p] = "unpack_write"
    /\ fs' = FsPut(fs, loc[p].dest,
                   FileEntry(ExtractFile(loc[p].archive, Head(loc[p].todo))))
    /\ loc' = [loc EXCEPT ![p].todo = Tail(loc[p].todo)]
    /\ pc' = [pc EXCEPT ![p] = "unpack_makedirs"]
    /\ UNCHANGED <<ml, os_name, walk_full, nextId, packed, result, opt, last,
                   hist, origin>>

\* Line 77: load_model(temp_dir) builds the live model, or raises.
unpack_load(p) ==
    /\ pc[p] = "unpack_load"
    /\ UNCHANGED <<ml, os_name, walk_full, fs, nextId, packed, result, opt, last,
                   hist, origin>>
    /\ \/ /\ Loadable(fs, loc[p].temp_dir)
          /\ loc' = [loc EXCEPT ![p].loaded = LoadModel(fs, loc[p].temp_dir)]
          /\ pc' = [pc EXCEPT ![p] = "unpack_walk"]
       \/ Raise(p, "OSError")

\* Line 78: the walk lists the staged tree.
unpack_walk(p) ==
    /\ pc[p] = "unpack_walk"
    /\ loc' = [loc EXCEPT ![p].todo = Walk(fs, loc[p].temp_dir, walk_full)]
    /\ pc' = [pc EXCEPT ![p] = "unpack_remove"]
    /\ UNCHANGED <<ml, os_name, walk_full, fs, nextId, packed, result, opt, last,
                   hist, origin>>

\* Lines 79-86: the next staged file is removed; the loops end when the
\* walk is exhausted.
unpack_remove(p) ==
    /\ pc[p] = "unpack_remove"
    /\ UNCHANGED <<ml, os_name, walk_full, nextId, packed, result, opt, last,
                   hist, origin>>
    /\ \/ /\ loc[p].todo = <<>>
          /\ pc' = [pc EXCEPT ![p] = "unpack_hook"]
          /\ UNCHANGED <<fs, loc>>
       \/ /\ loc[p].todo # <<>>
          /\ LET d == WalkDest(Head(loc[p].todo).root, Head(loc[p].todo).filename)
             IN  IF RemoveRaises(fs, d) = "none"
                 THEN /\ fs' = FsRemove(fs, d)
                      /\ loc' = [loc EXCEPT ![p].todo = Tail(loc[p].todo),
                                            ![p].dest = d]
                      /\ pc' = [pc EXCEPT ![p] = "unpack_remove"]
                 ELSE /\ UNCHANGED fs
                      /\ Raise(p, RemoveRaises(fs, d))

\* Faulty variant: the hook is attached whether or not the model has an optimizer.
AttachesHookAlways(model, w) == TRUE

\* Line 87: whether unpack_keras_model attaches the hook.
AttachesHook(model, w) == model.has_optimizer

\* Lines 87-89: the hook is attached and the model is returned.
unpack_hook(p) ==
    /\ pc[p] = "unpack_hook"
    /\ loc' = [loc EXCEPT ![p].loaded.optimizer =
                 IF AttachesHook(loc[p].loaded, loc[p].weights)
                 THEN RestoreOptimizerWeights(loc[p].loaded.optimizer, loc[p].weights)
                 ELSE loc[p].loaded.optimizer]
    /\ pc' = [pc EXCEPT ![p] = "exit"]
    /\ UNCHANGED <<ml, os_name, walk_full, fs, nextId, packed, result, opt, last,
                   hist, origin>>

\* ------------------------------------------- optimizer pack / unpack

\* Faulty variant: pack also installs the hook on the optimizer it packs.
pack_keras_optimizer_hooking(p) ==
    /\ pc[p] = "idle"
    /\ \E o \in LiveOptimizers :
         /\ packed' = [packed EXCEPT ![p] =
                         [kind |-> "optimizer", blob |-> <<>>, cfg |-> "optimizer",
                          weights |-> GetWeights(opt[o]), model |-> "None",
                          src |-> o]]
         /\ opt' = [opt EXCEPT ![o] =
                      RestoreOptimizerWeights(opt[o], GetWeights(opt[o]))]
    /\ UNCHANGED <<ml, os_name, walk_full, fs, nextId, pc, loc, result, last,
                   hist, origin>>

\* pack_keras_optimizer, lines 145-147.
pack_keras_optimizer(p) ==
    /\ pc[p] = "idle"
    /\ \E o \in LiveOptimizers :
         packed' = [packed EXCEPT ![p] =
                      [kind |-> "optimizer", blob |-> <<>>, cfg |-> "optimizer",
                       weights |-> GetWeights(opt[o]), model |-> "None",
                       src |-> o]]
    /\ UNCHANGED <<ml, os_name, walk_full, fs, nextId, pc, loc, result, opt, last,
                   hist, origin>>

\* keras.optimizers.deserialize: a newly constructed optimizer.
Deserialize(cfg) == FreshOptimizer

\* unpack_keras_optimizer, lines 131-133; deserialize may raise.
unpack_keras_optimizer(p) ==
    /\ pc[p] = "idle"
    /\ packed[p].kind = "optimizer"
    /\ UNCHANGED <<ml, os_name, walk_full, fs, nextId, pc, loc, packed>>
    /\ \/ /\ opt' = [opt EXCEPT ![p] =
                       RestoreOptimizerWeights(Deserialize(packed[p].cfg),
                                               packed[p].weights)]
          /\ result' = [result EXCEPT ![p] = NoModel]
          /\ hist' = [hist EXCEPT ![p] = [NoHist EXCEPT !.hooked = TRUE]]
          /\ origin' = [origin EXCEPT ![p] =
                          [model |-> "None", src |-> packed[p].src,
                           arg |-> packed[p].weights]]
          /\ last' = [last EXCEPT ![p] = Ended(p, "unpack_keras_optimizer", "none")]
       \/ /\ last' = [last EXCEPT ![p] =
                        Ended(p, "unpack_keras_optimizer", "ValueError")]
          /\ UNCHANGED <<result, opt, hist, origin>>

\* ------------------------------------------------ _create_all_weights

\* The allocation call ends: it returns (e = "none") or raises e.
AllocDone(p, e, h) ==
    /\ pc' = [pc EXCEPT ![p] = "idle"]
    /\ loc' = [loc EXCEPT ![p] = NoLoc]
    /\ hist' = [hist EXCEPT ![p] =
                  [h EXCEPT !.ended = TRUE,
                            !.returned = h.returned \/ e = "none"]]
    /\ last' = [last EXCEPT ![p] =
                  [Ended(p, "create_all_weights", e) EXCEPT
                     !.mismatch = loc[p].mismatch \/ e = "ValueError"]]

\* The training loop calls optimizer._create_all_weights(var_list) on the
\* reconstructed optimizer: the class's routine runs, or the wrapper is
\* entered (line 37).
create_all_weights(p) ==
    /\ pc[p] = "idle"
    /\ opt[p].alive
    /\ UNCHANGED <<ml, os_name, walk_full, fs, nextId, packed, result, origin>>
    /\ LET h == [hist[p] EXCEPT !.first = ~hist[p].ended] IN
       \E vl \in VarLists :
         \/ /\ opt[p].caw = "orig"
            /\ opt' = IF AllocRaises(vl) THEN opt
                      ELSE [opt EXCEPT ![p] = Allocate(opt[p], vl)]
            /\ AllocDone(p, IF AllocRaises(vl) THEN "TypeError" ELSE "none", h)
         \/ /\ opt[p].caw = "temp"
            /\ pc' = [pc EXCEPT ![p] = "temp_orig"]
            /\ loc' = [loc EXCEPT ![p] = [NoLoc EXCEPT !.var_list = vl]]
            /\ hist' = [hist EXCEPT ![p] = h]
            /\ last' = [last EXCEPT ![p] = Started(p, "create_all_weights")]
            /\ UNCHANGED opt

\* _temp_create_all_weights, line 44: the saved routine is called.  A saved
\* routine that is the wrapper itself calls itself until the stack is full.
temp_orig(p) ==
    /\ pc[p] = "temp_orig"
    /\ UNCHANGED <<ml, os_name, walk_full, fs, nextId, packed, result, origin>>
    /\ \/ /\ opt[p].orig = "temp"
          /\ AllocDone(p, "RecursionError", hist[p])
          /\ UNCHANGED opt
       \/ /\ opt[p].orig = "orig"
          /\ AllocRaises(loc[p].var_list)
          /\ AllocDone(p, "TypeError", hist[p])
          /\ UNCHANGED opt
       \/ /\ opt[p].orig = "orig"
          /\ ~AllocRaises(loc[p].var_list)
          /\ opt' = [opt EXCEPT ![p] = Allocate(opt[p], loc[p].var_list)]
          /\ pc' = [pc EXCEPT ![p] = "temp_set_weights"]
          /\ UNCHANGED <<loc, last, hist>>

\* Faulty variant: the except clause is missing.
SwallowsNothing(e) == FALSE

\* Which exceptions of set_weights the wrapper swallows: line 47.
Swallows(e) == e = "ValueError"

\* _temp_create_all_weights, lines 45-50.
temp_set_weights(p) ==
    /\ pc[p] = "temp_set_weights"
    /\ UNCHANGED <<ml, os_name, walk_full, fs, nextId, packed, result, origin>>
    /\ LET e == SetWeightsRaises(opt[p], opt[p].restored)
           h == [hist[p] EXCEPT !.attempted = TRUE]
       IN
       \/ /\ e = "none"
          /\ opt' = [opt EXCEPT ![p] = SetWeights(opt[p], opt[p].restored)]
          /\ pc' = [pc EXCEPT ![p] = "temp_clear"]
          /\ hist' = [hist EXCEPT ![p] = h]
          /\ UNCHANGED <<loc, last>>
       \/ /\ e # "none"
          /\ Swallows(e)
          /\ pc' = [pc EXCEPT ![p] = "temp_clear"]
          /\ loc' = [loc EXCEPT ![p].mismatch = (e = "ValueError")]
          /\ hist' = [hist EXCEPT ![p] = h]
          /\ UNCHANGED <<opt, last>>
       \/ /\ e # "none"
          /\ ~Swallows(e)
          /\ AllocDone(p, e, h)
          /\ UNCHANGED opt

\* _temp_create_all_weights, lines 51-52, and the return.
temp_clear(p) ==
    /\ pc[p] = "temp_clear"
    /\ opt' = [opt EXCEPT ![p] = RemoveHook(opt[p])]
    /\ AllocDone(p, "none", hist[p])
    /\ UNCHANGED <<ml, os_name, walk_full, fs, nextId, packed, result, origin>>

\* ------------------------------------------------- metric / loss pairs

\* keras.metrics.serialize / keras.losses.serialize: the class identifier
\* and the constructor arguments; accumulated state is not part of it.
SerializeObject(o) ==
    [class_name |-> o.cls, config |-> [name |-> o.name, dtype |-> o.dtype]]

\* keras.metrics.deserialize / keras.losses.deserialize: whether the class
\* identifier resolves among the classes of that family.
DeserializeRaises(cfg, classes) ==
    IF cfg.class_name \in classes THEN "none" ELSE "ValueError"

\* A newly constructed object of the configured class.
DeserializeObject(cfg, family) ==
    [some |-> TRUE, family |-> family, cls |-> cfg.class_name,
     name |-> cfg.config.name, dtype |-> cfg.config.dtype,
     state |-> 0, attrs |-> {}]

\* Faulty variant: the tuple also carries the object's state, as the
\* optimizer's does.
MetricLossArgsWithState(o) == <<SerializeObject(o), o.state>>

\* The argument tuple pack_keras_metric and pack_keras_loss return:
\* lines 161 and 173.
MetricLossArgs(o) == <<SerializeObject(o)>>

\* pack_keras_metric, lines 160-161.
pack_keras_metric(p) ==
    /\ pc[p] = "idle"
    /\ \E id \in {i \in MLIds : MLObject(i).family = "metric"} :
         ml' = [ml EXCEPT ![p].fn = "unpack_keras_metric",
                          ![p].args = MetricLossArgs(MLObject(id)),
                          ![p].src = id]
    /\ UNCHANGED <<os_name, walk_full, fs, nextId, pc, loc, packed, result,
                   opt, last, hist, origin>>

\* pack_keras_loss, lines 172-173.
pack_keras_loss(p) ==
    /\ pc[p] = "idle"
    /\ \E id \in {i \in MLIds : MLObject(i).family = "loss"} :
         ml' = [ml EXCEPT ![p].fn = "unpack_keras_loss",
                          ![p].args = MetricLossArgs(MLObject(id)),
                          ![p].src = id]
    /\ UNCHANGED <<os_name, walk_full, fs, nextId, pc, loc, packed, result,
                   opt, last, hist, origin>>

\* The pickling protocol calls fn(*args): the body shared by
\* unpack_keras_metric (lines 152-153) and unpack_keras_loss (lines 166-167).
UnpackObject(p, fn, family, classes) ==
    /\ ml[p].fn = fn
    /\ Len(ml[p].args) = 1
    /\ LET e == DeserializeRaises(ml[p].args[1], classes) IN
         /\ ml' = IF e = "none"
                  THEN [ml EXCEPT ![p].obj = DeserializeObject(ml[p].args[1], family),
                                  ![p].obj_src = ml[p].src]
                  ELSE ml
         /\ last' = [last EXCEPT ![p] = Ended(p, fn, e)]
    /\ UNCHANGED <<os_name, walk_full, fs, nextId, pc, loc, packed, result,
                   opt, hist, origin>>

unpack_keras_metric(p) ==
    /\ pc[p] = "idle"
    /\ UnpackObject(p, "unpack_keras_metric", "metric", MetricClasses)

unpack_keras_loss(p) ==
    /\ pc[p] = "idle"
    /\ UnpackObject(p, "unpack_keras_loss", "loss", LossClasses)

\* ---------------------------------------------------------- specification

\* The statements of pack_keras_model and unpack_keras_model, the calls that
\* acquire a staging root.
Staged(p) ==
    \/ pack_begin(p)
    \/ pack_save(p)
    \/ pack_walk(p)
    \/ pack_add(p)
    \/ pack_remove(p)
    \/ pack_weights(p)
    \/ unpack_begin(p)
    \/ unpack_open(p)
    \/ unpack_makedirs(p)
    \/ unpack_write(p)
    \/ unpack_load(p)
    \/ unpack_walk(p)
    \/ unpack_remove(p)
    \/ unpack_hook(p)
    \/ exit_exists(p)
    \/ exit_remove(p)

\* One caller (the module is synchronous): every operation of the module
\* and the training loop's allocation calls on what it reconstructed.
Main == "p1"

Next ==
    \/ Staged(Main)
    \/ pack_keras_optimizer(Main)
    \/ unpack_keras_optimizer(Main)
    \/ create_all_weights(Main)
    \/ temp_orig(Main)
    \/ temp_set_weights(Main)
    \/ temp_clear(Main)

Spec == Init /\ [][Next]_vars

\* Independent threads of the pickling protocol, each in a pack or unpack
\* call of its own, their statements interleaved.
NextConc == \E p \in Procs : Staged(p)

SpecConc == Init /\ [][NextConc]_vars

\* The pickling protocol packs and unpacks metrics and losses.
NextObj ==
    \/ pack_keras_metric(Main)
    \/ unpack_keras_metric(Main)
    \/ pack_keras_loss(Main)
    \/ unpack_keras_loss(Main)

SpecObj == Init /\ [][NextObj]_vars

\* ------------------------------------------------------------------ claims

StagedOps == {"pack_keras_model", "unpack_keras_model"}
InWrapper(p) == pc[p] \in {"temp_orig", "temp_set_weights", "temp_clear"}
Active(p) == pc[p] # "idle"

\* A staged call of p has ended and p has started nothing since.
StagedEnded(p) == pc[p] = "idle" /\ last[p].done /\ last[p].op \in StagedOps

\* C1: when a pack_keras_model or unpack_keras_model call has raised, nothing
\* is left at or under the staging root it acquired.
C1_NoLeakAfterRaise ==
    \A p \in Procs :
        StagedEnded(p) /\ last[p].exc # "none" => Under(fs, last[p].dir) = {}

\* The first allocation call on a reconstructed, hooked optimizer has
\* returned normally and no other call was started since.
FirstCallReturned(p) ==
    /\ pc[p] = "idle"
    /\ hist[p].hooked
    /\ hist[p].first /\ hist[p].ended /\ hist[p].returned

C3_OnlyFirstCall ==
    \A p \in Procs : pc[p] = "temp_set_weights" => hist[p].first

\* C3 amended: the wrapper runs, and applying the pending weights is
\* attempted, in every allocation call up to the first one that returns
\* normally and in no call after it: once a call has returned, set_weights
\* was attempted and every later call runs the original routine only.
C3_OnceReturned ==
    \A p \in Procs :
        /\ InWrapper(p) => ~hist[p].returned
        /\ pc[p] = "idle" /\ hist[p].hooked /\ hist[p].returned =>
               hist[p].attempted /\ opt[p].caw = "orig"

\* A call made after a normal return has ended (it raised, in the original
\* routine).
C3_Witness ==
    \E p \in Procs :
        /\ pc[p] = "idle" /\ hist[p].hooked /\ hist[p].returned
        /\ last[p].op = "create_all_weights" /\ last[p].done
        /\ last[p].exc # "none"

AllDefault(ws) == \A i \in 1..Len(ws) : ws[i].val = 0

\* C4: when set_weights raises the shape-mismatch error inside the wrapper,
\* the allocation call returns without raising, the weights keep their
\* freshly allocated default values and the hook is removed.
C4_MismatchSwallowed ==
    \A p \in Procs :
        /\ pc[p] = "temp_clear" /\ loc[p].mismatch => AllDefault(opt[p].weights)
        /\ pc[p] = "idle" /\ last[p].op = "create_all_weights"
              /\ last[p].done /\ last[p].mismatch =>
               /\ last[p].exc = "none"
               /\ AllDefault(opt[p].weights)
               /\ opt[p].weights # <<>>
               /\ ~opt[p].has_restored
               /\ opt[p].caw = "orig"

\* The never-trained optimizer O2 was packed, unpacked and bound.
C4_Witness ==
    \E p \in Procs :
        /\ pc[p] = "idle" /\ last[p].op = "create_all_weights"
        /\ last[p].done /\ last[p].mismatch /\ last[p].exc = "none"
        /\ origin[p].src = "O2"

Shapes(ws) == [i \in 1..Len(ws) |-> ws[i].shape]

\* The one allocation call made on the optimizer reconstructed from what
\* pack returned has returned, and the allocated shapes are the packed ones.
OneCallMatching(p) ==
    /\ pc[p] = "idle"
    /\ last[p].op = "create_all_weights" /\ last[p].done /\ last[p].exc = "none"
    /\ hist[p].hooked /\ hist[p].first
    /\ origin[p].src \in LiveOptimizers
    /\ origin[p].arg.some
    /\ Shapes(opt[p].weights) = Shapes(opt[origin[p].src].weights)

\* C5: after unpack(*pack(x)) and one allocation call with matching shapes,
\* the reconstructed optimizer's weights equal the weights the original
\* optimizer held at pack time (model and standalone optimizer alike).
C5_OptimizerRoundTrip ==
    \A p \in Procs :
        OneCallMatching(p) => opt[p].weights = opt[origin[p].src].weights

C5_Witness ==
    \E p \in Procs :
        /\ OneCallMatching(p)
        /\ result[p].some
        /\ opt[p].weights # <<>>
        /\ ~AllDefault(opt[p].weights)

\* The files staged under root, by relative path.
StagedTree(f, root) ==
    {[rel |-> Relpath(q, root), data |-> f[q].data] : q \in FilesUnder(f, root)}

SavedTree(m) == {SavedFiles(m)[i] : i \in DOMAIN SavedFiles(m)}

\* C6: the tree unpack_keras_model has written under its staging root when
\* it loads the model has the relative paths and the bytes of the tree the
\* model's save wrote under the pack staging root, in either walk mode.
C6_ArchiveFidelity ==
    \A p \in Procs :
        /\ pc[p] = "pack_walk" =>
               StagedTree(fs, loc[p].temp_dir) = SavedTree(loc[p].model)
        /\ pc[p] = "unpack_load" =>
               StagedTree(fs, loc[p].temp_dir) = SavedTree(loc[p].model)

C6_Witness ==
    \E p \in Procs :
        /\ pc[p] = "unpack_load"
        /\ walk_full
        /\ loc[p].model = "M1"
        /\ Cardinality(StagedTree(fs, loc[p].temp_dir)) = 3

\* C7: for a model without optimizer, pack returns None as the weights, the
\* unpacked tree loads, and the model unpack returns has no optimizer and
\* no hook anywhere.
C7_NoOptimizerRoundTrip ==
    \A p \in Procs :
        /\ packed[p].kind = "model" /\ ModelOptimizer(packed[p].model) = "None" =>
               packed[p].weights = NoneWeights
        /\ pc[p] = "unpack_load" /\ ModelOptimizer(loc[p].model) = "None" =>
               Loadable(fs, loc[p].temp_dir)
        /\ Active(p) /\ last[p].op = "unpack_keras_model" /\ loc[p].loaded.some
              /\ ModelOptimizer(loc[p].model) = "None" =>
               /\ loc[p].exc = "none"
               /\ ~loc[p].loaded.has_optimizer
               /\ loc[p].loaded.optimizer = NoOptimizer
        /\ StagedEnded(p) /\ last[p].op = "unpack_keras_model"
              /\ last[p].exc = "none" /\ ModelOptimizer(origin[p].model) = "None" =>
               /\ result[p].some
               /\ ~result[p].has_optimizer
               /\ opt[p] = NoOptimizer
               /\ ~hist[p].hooked

C7_Witness ==
    \E p \in Procs :
        /\ StagedEnded(p) /\ last[p].op = "unpack_keras_model"
        /\ last[p].exc = "none" /\ origin[p].model = "M0"
        /\ result[p].some

\* C8: when a pack_keras_model or unpack_keras_model call has returned
\* normally, nothing is left at or under the staging root it acquired.
C8_NoStagingAfterReturn ==
    \A p \in Procs :
        StagedEnded(p) /\ last[p].exc = "none" => Under(fs, last[p].dir) = {}

\* The entries a step creates, removes or rewrites.
Touched ==
    {x \in DOMAIN fs \cup DOMAIN fs' :
        \/ x \notin DOMAIN fs
        \/ x \notin DOMAIN fs'
        \/ fs[x] # fs'[x]}

Acts(p) == pc'[p] # pc[p] \/ loc'[p] # loc[p]

\* C9: two calls that are active at the same time hold different staging
\* roots, every file a call is about to read or remove lies under its own
\* root, and no step of one call creates, overwrites or removes an entry
\* under the root of another active call.
C9_Isolation ==
    [][/\ \A p, q \in Procs :
             p # q /\ Active(p)' /\ Active(q)' =>
                 loc'[p].temp_dir # loc'[q].temp_dir
       /\ \A p \in Procs :
             Active(p)' /\ loc'[p].dest # <<>> =>
                 IsPrefix(loc'[p].temp_dir, loc'[p].dest)
       /\ \A p, q \in Procs :
             p # q /\ Acts(p) /\ Active(q) =>
                 \A x \in Touched : ~IsPrefix(loc[q].temp_dir, x)]_vars

C9_Witness ==
    \E p, q \in Procs :
        /\ p # q
        /\ pc[p] = "pack_remove" /\ pc[q] = "unpack_write"
        /\ FilesUnder(fs, loc[p].temp_dir) # {}
        /\ FilesUnder(fs, loc[q].temp_dir) # {}

\* C10: the exit logic of the staging scope raises nothing of its own: it
\* removes the ram:// root only when the root exists, and the removal of
\* an existing root, empty or not, completes.
C10_ExitNeverRaises ==
    \A p \in Procs :
        /\ last[p].cleanup_exc = "none"
        /\ pc[p] = "exit_remove" => Exists(fs, loc[p].temp_dir)

\* A root that still held entries was removed at exit, silently.
C10_Witness ==
    \E p \in Procs :
        /\ StagedEnded(p)
        /\ os_name = "posix"
        /\ ~Exists(fs, last[p].dir)
        /\ Under(fs, last[p].dir) # {}

\* A call ended whose root did not exist at exit.
C10_WitnessAbsent ==
    \E p \in Procs :
        /\ StagedEnded(p)
        /\ os_name = "posix"
        /\ last[p].exc = "ReadError"
        /\ Under(fs, last[p].dir) = {}

\* C11: for a metric or a loss, the tuple pack returns holds one element,
\* the object's serialized configuration; the object unpack returns for it
\* serializes to the configuration of the original; it carries no attached
\* attribute, and no optimizer has a pending weight list or the wrapper.
C11_MetricLossRoundTrip ==
    \A p \in Procs :
        /\ ml[p].fn # "none" =>
               /\ Len(ml[p].args) = 1
               /\ ml[p].args[1] = SerializeObject(MLObject(ml[p].src))
        /\ ml[p].obj.some =>
               /\ SerializeObject(ml[p].obj) =
                      SerializeObject(MLObject(ml[p].obj_src))
               /\ ml[p].obj.attrs = {}
        /\ \A o \in OptIds : ~opt[o].has_restored /\ opt[o].caw = "orig"

\* A metric that had accumulated state was rebuilt (without that state),
\* and a loss was packed after it.
C11_Witness ==
    \E p \in Procs :
        /\ ml[p].obj.some /\ ml[p].obj_src = "auc"
        /\ last[p].op = "unpack_keras_metric" /\ last[p].exc = "none"
        /\ ml[p].obj # MLObject("auc")
        /\ ml[p].fn = "unpack_keras_loss" /\ ml[p].src = "hub"

\* C12: when unpack_keras_model is about to return, the loaded model's
\* optimizer carries the hook exactly when the model has an optimizer and
\* optimizer_weights is not None.
C12_HookOnlyWithWeights ==
    \A p \in Procs :
        pc[p] = "exit" /\ last[p].op = "unpack_keras_model"
              /\ loc[p].exc = "none" /\ loc[p].loaded.some =>
            /\ loc[p].loaded.optimizer.caw = "temp" <=>
                   (loc[p].loaded.has_optimizer /\ loc[p].weights.some)
            /\ loc[p].loaded.optimizer.has_restored <=>
                   (loc[p].loaded.has_optimizer /\ loc[p].weights.some)

HasSlot(o, v) == \E j \in 1..Len(o.slotvars) : o.slotvars[j] = v

\* C13: inside the wrapper, set_weights is reached only after the original
\* routine has allocated for the call's own variable list: the iteration
\* counter exists and every variable of var_list has its slot.
C13_OrigBeforeSetWeights ==
    \A p \in Procs :
        pc[p] \in {"temp_set_weights", "temp_clear"} =>
            /\ opt[p].weights # <<>>
            /\ Len(opt[p].weights) = 1 + Len(opt[p].slotvars)
            /\ \A i \in 1..Len(loc[p].var_list) :
                   HasSlot(opt[p], loc[p].var_list[i])

\* set_weights is about to be attempted in a second call, whose variable
\* list differs from the one an earlier, failed call allocated for.
C13_Witness ==
    \E p \in Procs :
        /\ pc[p] = "temp_set_weights"
        /\ ~hist[p].first
        /\ loc[p].var_list = <<"b">>
        /\ opt[p].slotvars = <<"a", "b">>

\* The staged files of p's call that already have an entry in its archive.
InBoth(p) ==
    {q \in FilesUnder(fs, loc[p].temp_dir) :
        \E i \in 1..Len(loc[p].archive) :
            loc[p].archive[i].name = Relpath(q, loc[p].temp_dir)}

ArchiveTree(archive) ==
    {[rel |-> archive[i].name, data |-> archive[i].data] : i \in 1..Len(archive)}

\* C14: during pack_keras_model a file is removed from staging right after
\* it was added to the archive and before the next one is read: the only
\* file ever in both places is the one just added; when the walk has ended
\* every file the save wrote is in the archive exactly once and no file is
\* left in staging.
C14_StreamingDelete ==
    \A p \in Procs :
        last[p].op = "pack_keras_model" =>
            /\ pc[p] = "pack_add" => InBoth(p) = {}
            /\ pc[p] = "pack_remove" => InBoth(p) = {loc[p].dest}
            /\ pc[p] = "pack_weights" =>
                   /\ FilesUnder(fs, loc[p].temp_dir) = {}
                   /\ ArchiveTree(loc[p].archive) = SavedTree(loc[p].model)
                   /\ Len(loc[p].archive) = Cardinality(SavedTree(loc[p].model))

\* The third file of M1's tree was just added; the two before it are gone.
C14_Witness ==
    \E p \in Procs :
        /\ pc[p] = "pack_remove"
        /\ Len(loc[p].archive) = 3
        /\ FilesUnder(fs, loc[p].temp_dir) = {loc[p].dest}

InUnpack(p) == Active(p) /\ last[p].op = "unpack_keras_model"

\* The places of the archive entries the extraction loop has written so far.
Extracted(p) ==
    {ExtractDest(loc[p].temp_dir, loc[p].archive[i].name) :
        i \in 1..(Len(loc[p].archive) - Len(loc[p].todo))}

\* C15: unpack_keras_model keeps its order.  A file is written only once its
\* parent directory exists; while entries are extracted nothing is loaded
\* and nothing is deleted; the load sees every entry of the archive; files
\* are deleted only after the load has returned; the hook is attached, and
\* the model returned, only when no staged file is left.
C15_UnpackOrder ==
    \A p \in Procs :
        InUnpack(p) =>
            /\ pc[p] = "unpack_write" =>
                   /\ Exists(fs, Dirname(loc[p].dest))
                   /\ fs[Dirname(loc[p].dest)].dir
            /\ pc[p] \in {"unpack_makedirs", "unpack_write"} =>
                   /\ ~loc[p].loaded.some
                   /\ FilesUnder(fs, loc[p].temp_dir) = Extracted(p)
            /\ pc[p] = "unpack_load" =>
                   /\ ~loc[p].loaded.some
                   /\ FilesUnder(fs, loc[p].temp_dir) =
                          {ExtractDest(loc[p].temp_dir, loc[p].archive[i].name) :
                              i \in 1..Len(loc[p].archive)}
            /\ pc[p] \in {"unpack_walk", "unpack_remove", "unpack_hook"} =>
                   /\ loc[p].loaded.some
                   /\ loc[p].loaded.optimizer.caw = "orig"
            /\ pc[p] = "unpack_hook" \/ (pc[p] = "exit" /\ loc[p].exc = "none") =>
                   FilesUnder(fs, loc[p].temp_dir) = {}

\* The three files of M1's archive were extracted, loaded and deleted, and
\* the hook is about to be attached.
C15_Witness ==
    \E p \in Procs :
        /\ InUnpack(p) /\ pc[p] = "unpack_hook"
        /\ Len(loc[p].archive) = 3
        /\ loc[p].loaded.has_optimizer

\* The files the rest of the walk names.
WalkDests(todo) ==
    {WalkDest(todo[i].root, todo[i].filename) : i \in 1..Len(todo)}

InPack(p) == Active(p) /\ last[p].op = "pack_keras_model"

\* C16: whichever way the walk reports a file, the path read or deleted is
\* that file: a name reported as a whole ram:// path is used as it is, never
\* joined to the walk root.  The files still to be read by pack, and still
\* to be deleted by unpack, are exactly the files staged under the call's
\* root; pack names each archive entry by the path relative to the root.
C16_FullPathHandling ==
    \A p \in Procs :
        /\ InPack(p) /\ pc[p] \in {"pack_add", "pack_remove"} =>
               /\ WalkDests(loc[p].todo) = FilesUnder(fs, loc[p].temp_dir)
               /\ \A i \in 1..Len(loc[p].archive) :
                      /\ loc[p].archive[i].name # <<>>
                      /\ loc[p].archive[i].name[1] \notin {RamScheme, ".."}
        /\ InPack(p) /\ pc[p] = "pack_remove" =>
               /\ loc[p].archive[Len(loc[p].archive)].name =
                      Relpath(loc[p].dest, loc[p].temp_dir)
               /\ walk_full => loc[p].dest = Head(loc[p].todo).filename
        /\ InUnpack(p) /\ pc[p] = "unpack_remove" =>
               /\ WalkDests(loc[p].todo) = FilesUnder(fs, loc[p].temp_dir)
               /\ WalkDests(loc[p].todo) \subseteq
                      {ExtractDest(loc[p].temp_dir, loc[p].archive[i].name) :
                          i \in 1..Len(loc[p].archive)}
               /\ walk_full =>
                      \A i \in 1..Len(loc[p].todo) :
                          /\ StartsWithRam(loc[p].todo[i].filename)
                          /\ IsFile(fs, loc[p].todo[i].filename)

\* Full ram:// paths are reported; an archive packed that way was extracted
\* and unpack's cleanup is under way, with a file in a sub-directory left.
C16_Witness ==
    \E p \in Procs :
        /\ walk_full
        /\ InUnpack(p) /\ pc[p] = "unpack_remove"
        /\ Len(loc[p].archive) = 3
        /\ Len(loc[p].todo) = 2
        /\ \E i \in 1..2 : Len(loc[p].todo[i].filename) = 4

\* No call is running: the state is one between operations.
BetweenOperations == \A p \in Procs : pc[p] = "idle"

\* C17: between operations, _create_all_weights of an optimizer is the
\* restoring wrapper exactly when _restored_weights is present on it; a
\* wrapped call that ended with an exception before any call returned has
\* left both in place.
C17_WrapperIffPending ==
    BetweenOperations =>
        /\ \A o \in OptIds : opt[o].caw = "temp" <=> opt[o].has_restored
        /\ \A p \in Procs :
               hist[p].hooked /\ hist[p].ended /\ ~hist[p].returned =>
                   /\ last[p].op = "create_all_weights" => last[p].exc # "none"
                   /\ opt[p].caw = "temp"
                   /\ opt[p].has_restored

\* A wrapped call got as far as set_weights, which raised something other
\* than the shape mismatch (the pending list was None).
C17_Witness ==
    \E p \in Procs :
        /\ BetweenOperations
        /\ last[p].op = "create_all_weights" /\ last[p].done
        /\ last[p].exc = "TypeError"
        /\ hist[p].hooked /\ hist[p].attempted /\ ~hist[p].returned
        /\ opt[p].caw = "temp"

\* C18: the routine saved as _create_all_weights_orig is never the wrapper:
\* the hook is only ever attached to an optimizer that was just constructed,
\* so a wrapped call reaches the class's allocation routine and no call
\* ends by recursing into the wrapper.
C18_OrigNeverWrapper ==
    /\ \A o \in OptIds : opt[o].has_orig => opt[o].orig = "orig"
    /\ \A p \in Procs :
           /\ loc[p].loaded.optimizer.has_orig =>
                  loc[p].loaded.optimizer.orig = "orig"
           /\ pc[p] = "unpack_hook" => ~loc[p].loaded.optimizer.has_orig
           /\ pc[p] = "temp_orig" => opt[p].orig = "orig"
           /\ last[p].exc # "RecursionError"

\* The optimizer of an unpacked model was bound to variables: its wrapped
\* call went through the class's routine and returned.
C18_Witness ==
    \E p \in Procs :
        /\ pc[p] = "idle"
        /\ nextId >= 2
        /\ origin[p].model = "M1"
        /\ hist[p].hooked /\ hist[p].returned
        /\ opt[p].has_orig /\ opt[p].weights # <<>>

\* The step belongs to a pack: a statement of pack_keras_model, or a call of
\* pack_keras_optimizer (the only other step that changes what was packed).
PackStep(p) == InPack(p) \/ InPack(p)' \/ packed'[p] # packed[p]

\* C19: no step of pack_keras_model or pack_keras_optimizer changes any
\* optimizer (its weights, its attributes, its allocation routine), and the
\* live optimizers never carry the hook: only an optimizer reconstructed by
\* unpack does.
C19_PackLeavesObject ==
    [][/\ (\E p \in Procs : PackStep(p)) => opt' = opt
       /\ \A o \in LiveOptimizers :
              /\ opt'[o].caw = "orig"
              /\ ~opt'[o].has_restored
              /\ ~opt'[o].has_orig
              /\ opt'[o].weights = opt[o].weights]_vars

\* The trained optimizer was packed on its own and then again with its
\* model, and a reconstructed optimizer carries the hook.
C19_Witness ==
    \E p \in Procs :
        /\ StagedEnded(p) /\ last[p].op = "pack_keras_model"
        /\ last[p].exc = "none"
        /\ packed[p].kind = "model" /\ packed[p].src = "O1"
        /\ packed[p].weights = SomeWeights(opt["O1"].weights)
        /\ opt[p].alive /\ opt[p].caw = "temp"
        /\ origin[p].src = "O1" /\ origin[p].model = "None"

====
